---- MODULE Spec2Model ----
(***************************************************************************)
(* Model of the Solver class of dashboard/dashboard.js: the forward Euler  *)
(* integration of the robustness-adaptivity ODE done by the "solution"     *)
(* getter, the two derivative functions, and the caller that edits the     *)
(* stored params / initial_values objects in place.                        *)
(*                                                                         *)
(* Numbers are JavaScript doubles in the program.  The model uses small    *)
(* integers, on which double arithmetic is exact.                          *)
(*                                                                         *)
(* The getter uses three names it does not define: the method "append" of  *)
(* Array (line 35), the global "self" (lines 40, 41) and the undeclared    *)
(* variables delta_rob / delta_ada (lines 40, 41).  What they mean is      *)
(* decided by the host that loads the script; the variable env records it. *)
(***************************************************************************)
EXTENDS Integers, Sequences, FiniteSets, TLC

VARIABLES params, initial_values, env, pc, curr, solution, heap, result,
          snap, used, edited, midEdits

vars == <<params, initial_values, env, pc, curr, solution, heap, result,
          snap, used, edited, midEdits>>

----------------------------------------------------------------------------
(* Bounds of the model *)

\* a solve that has recorded this many samples is not followed further
MaxSamples == 3

\* an iteration is only followed from running values of at most this size
MaxAbs == 100

\* edits of params that may fall inside running solves (SpecConc only)
MaxMidEdits == 1

----------------------------------------------------------------------------
(* Input sets *)

\* the values each field of params is drawn from
ParamDomain ==
    [alpha_r   |-> {1},
     alpha_a   |-> {1},
     q         |-> {0, 1},
     gamma_r0  |-> {0, 1},
     gamma_r2  |-> {0, 1},
     gamma_a   |-> {0, 1},
     beta_a    |-> {0, 1},
     beta_r    |-> {0, 1},
     time_step |-> {-1, 0, 1, 2},
     end       |-> {0, 2}]

ParamFields == DOMAIN ParamDomain

ParamSets ==
    [alpha_r   : ParamDomain.alpha_r,
     alpha_a   : ParamDomain.alpha_a,
     q         : ParamDomain.q,
     gamma_r0  : ParamDomain.gamma_r0,
     gamma_r2  : ParamDomain.gamma_r2,
     gamma_a   : ParamDomain.gamma_a,
     beta_a    : ParamDomain.beta_a,
     beta_r    : ParamDomain.beta_r,
     time_step : ParamDomain.time_step,
     end       : ParamDomain.end]

\* the values each field of initial_values is drawn from
InitialDomain ==
    [robustness |-> {0, 1},
     adaptivity |-> {0, 1},
     time       |-> {0, 1}]

InitialFields == DOMAIN InitialDomain

InitialSets ==
    [robustness : InitialDomain.robustness,
     adaptivity : InitialDomain.adaptivity,
     time       : InitialDomain.time]

\* The hosts the script is loaded in.
\*   append:    Array.prototype.append exists and appends its argument
\*   self:      what self.params is: "undefined", the Solver's own params
\*              object ("this"), or another object ("other") whose time_step
\*              is ambient_step
\*   delta:     delta_rob and delta_ada exist as global variables
\* The first is a standard browser; each next one supplies one more of the
\* names, in the order the getter needs them.
Envs ==
    {[append |-> FALSE, self |-> "undefined", delta |-> FALSE, ambient_step |-> 0],
     [append |-> TRUE,  self |-> "undefined", delta |-> FALSE, ambient_step |-> 0],
     [append |-> TRUE,  self |-> "this",      delta |-> FALSE, ambient_step |-> 0],
     [append |-> TRUE,  self |-> "this",      delta |-> TRUE,  ambient_step |-> 0],
     [append |-> TRUE,  self |-> "other",     delta |-> TRUE,  ambient_step |-> 1]}

----------------------------------------------------------------------------
(* Values *)

ObjIds == {1, 2}

NoRef == 0

EmptyTrajectory == [robustness |-> <<>>, adaptivity |-> <<>>, time |-> <<>>]

NoLocals == [robustness |-> 0, adaptivity |-> 0, time |-> 0, live |-> FALSE]

NoResult == [kind |-> "none", ref |-> NoRef, name |-> "", line |-> 0]

NoSnap == [f \in ParamFields |-> 0]

Abs(x) == IF x < 0 THEN -x ELSE x

\* the three append calls of one iteration
AppendSample(sol, c) ==
    [robustness |-> Append(sol.robustness, c.robustness),
     adaptivity |-> Append(sol.adaptivity, c.adaptivity),
     time       |-> Append(sol.time, c.time)]

----------------------------------------------------------------------------
(* The derivative functions *)

\* computeDrDt with the sign of the adaptivity term slipped
computeDrDtSignSlip(p, rob, ada) ==
    p.alpha_r * (1 - p.q) + p.gamma_r0 * rob - p.gamma_r2 * rob * rob * rob + p.beta_a * ada

computeDrDt(p, rob, ada) ==
    p.alpha_r * (1 - p.q) + p.gamma_r0 * rob - p.gamma_r2 * rob * rob * rob - p.beta_a * ada

computeDaDt(p, rob, ada) ==
    p.alpha_a * p.q - p.gamma_a * ada + p.beta_r * rob

----------------------------------------------------------------------------
(* The host *)

\* every name an iteration needs is there
EnvComplete(e) == e.append /\ e.self # "undefined" /\ e.delta

\* self.params.time_step
SelfTimeStep(e, p) == IF e.self = "this" THEN p.time_step ELSE e.ambient_step

\* the error the first iteration ends with in a host that lacks a name
ThrownError(e) ==
    IF ~e.append THEN [name |-> "TypeError", line |-> 35]
    ELSE IF e.self = "undefined" THEN [name |-> "TypeError", line |-> 40]
    ELSE [name |-> "ReferenceError", line |-> 40]

\* the loop condition with < in place of <=
LoopConditionStrict(p, c) == c.time < p.end

\* the loop condition
LoopCondition(p, c) == c.time <= p.end

\* the running values after lines 40 to 44
NextValues(p, e, c) ==
    LET delta_rob == computeDrDt(p, c.robustness, c.adaptivity) * SelfTimeStep(e, p)
        delta_ada == computeDaDt(p, c.robustness, c.adaptivity) * SelfTimeStep(e, p)
    IN  [robustness |-> c.robustness + delta_rob,
         adaptivity |-> c.adaptivity + delta_ada,
         time       |-> c.time + p.time_step,
         live       |-> TRUE]

InRange(c) == Abs(c.robustness) <= MaxAbs /\ Abs(c.adaptivity) <= MaxAbs

----------------------------------------------------------------------------
(* State after construction *)

\* The constructor stores the two objects as they are.  No solve is running
\* and the caller holds no Trajectory.  edited records that the caller has
\* assigned a field since.
Init ==
    /\ params \in ParamSets
    /\ initial_values \in InitialSets
    /\ env \in Envs
    /\ pc = "idle"
    /\ curr = NoLocals
    /\ solution = NoRef
    /\ heap = [o \in ObjIds |-> EmptyTrajectory]
    /\ result = NoResult
    /\ snap = NoSnap
    /\ used = NoSnap
    /\ edited = FALSE
    /\ midEdits = 0

----------------------------------------------------------------------------
(* The caller *)

\* The caller assigns one field of the stored params object, between two
\* solves.  It lets go of the Trajectory it was showing.
EditParams ==
    /\ pc = "idle"
    /\ \E f \in ParamFields : \E v \in ParamDomain[f] :
          /\ v # params[f]
          /\ params' = [params EXCEPT ![f] = v]
    /\ result' = NoResult
    /\ heap' = [o \in ObjIds |-> EmptyTrajectory]
    /\ edited' = TRUE
    /\ UNCHANGED <<initial_values, env, pc, curr, solution, snap, used, midEdits>>

\* The caller assigns one field of the stored initial_values object.
EditInitialValues ==
    /\ pc = "idle"
    /\ \E f \in InitialFields : \E v \in InitialDomain[f] :
          /\ v # initial_values[f]
          /\ initial_values' = [initial_values EXCEPT ![f] = v]
    /\ result' = NoResult
    /\ heap' = [o \in ObjIds |-> EmptyTrajectory]
    /\ edited' = TRUE
    /\ UNCHANGED <<params, env, pc, curr, solution, snap, used, midEdits>>

\* The caller assigns one field of params while a solve is between two loop
\* iterations (a host that lets an edit in there; SpecConc only).
EditParamsDuringSolve ==
    /\ pc = "loop"
    /\ midEdits < MaxMidEdits
    /\ \E f \in ParamFields : \E v \in ParamDomain[f] :
          /\ v # params[f]
          /\ params' = [params EXCEPT ![f] = v]
    /\ midEdits' = midEdits + 1
    /\ UNCHANGED <<initial_values, env, pc, curr, solution, heap, result, snap, used, edited>>

----------------------------------------------------------------------------
(* The solution getter *)

\* the object the getter's "solution" literal is: one the caller does not hold
FreshObject == CHOOSE o \in ObjIds : o # result.ref /\ \A o2 \in ObjIds : o2 # result.ref => o <= o2

\* Begin, had the getter kept its arrays from one call to the next: the new
\* solve goes on from the samples of the Trajectory returned last.
BeginCarryOver ==
    /\ pc = "idle"
    /\ pc' = "loop"
    /\ curr' = [robustness |-> initial_values.robustness,
                adaptivity |-> initial_values.adaptivity,
                time       |-> initial_values.time,
                live       |-> TRUE]
    /\ solution' = FreshObject
    /\ heap' = [heap EXCEPT ![FreshObject] =
                   IF result.kind = "trajectory" THEN heap[result.ref] ELSE EmptyTrajectory]
    /\ snap' = params
    /\ used' = params
    /\ UNCHANGED <<params, initial_values, env, result, edited, midEdits>>

\* Lines 29 and 32: the running values are copied out of initial_values and
\* a new object with three new empty arrays is made.
Begin ==
    /\ pc = "idle"
    /\ pc' = "loop"
    /\ curr' = [robustness |-> initial_values.robustness,
                adaptivity |-> initial_values.adaptivity,
                time       |-> initial_values.time,
                live       |-> TRUE]
    /\ solution' = FreshObject
    /\ heap' = [heap EXCEPT ![FreshObject] = EmptyTrajectory]
    /\ snap' = params
    /\ used' = params
    /\ UNCHANGED <<params, initial_values, env, result, edited, midEdits>>

\* Iterate, had the running values been the fields of initial_values
\* themselves and not copies of them.
IterateWritesBack ==
    /\ pc = "loop"
    /\ LoopCondition(params, curr)
    /\ EnvComplete(env)
    /\ Len(heap[solution].time) < MaxSamples
    /\ InRange(curr)
    /\ heap' = [heap EXCEPT ![solution] = AppendSample(@, curr)]
    /\ curr' = NextValues(params, env, curr)
    /\ initial_values' = [robustness |-> curr'.robustness,
                          adaptivity |-> curr'.adaptivity,
                          time       |-> curr'.time]
    /\ used' = params
    /\ UNCHANGED <<params, env, pc, solution, result, snap, edited, midEdits>>

\* Lines 33 to 45, one iteration in a host that has every name: the sample is
\* appended, both deltas are computed from the values before the update, then
\* the running values advance.
Iterate ==
    /\ pc = "loop"
    /\ LoopCondition(params, curr)
    /\ EnvComplete(env)
    /\ Len(heap[solution].time) < MaxSamples
    /\ InRange(curr)
    /\ heap' = [heap EXCEPT ![solution] = AppendSample(@, curr)]
    /\ curr' = NextValues(params, env, curr)
    /\ used' = params
    /\ UNCHANGED <<params, initial_values, env, pc, solution, result, snap, edited, midEdits>>

\* Lines 33 to 40, the iteration in a host that lacks a name: the getter ends
\* with the error, its solution object is lost, the caller gets no Trajectory.
IterateThrows ==
    /\ pc = "loop"
    /\ LoopCondition(params, curr)
    /\ ~EnvComplete(env)
    /\ result' = [kind |-> "error", ref |-> NoRef,
                  name |-> ThrownError(env).name, line |-> ThrownError(env).line]
    /\ heap' = [o \in ObjIds |-> EmptyTrajectory]
    /\ pc' = "idle"
    /\ curr' = NoLocals
    /\ solution' = NoRef
    /\ snap' = NoSnap
    /\ used' = NoSnap
    /\ UNCHANGED <<params, initial_values, env, edited, midEdits>>

\* Lines 33 and 49: the loop condition is false, the solution object is
\* returned.  The caller holds it in place of the one it held before.
Return ==
    /\ pc = "loop"
    /\ ~LoopCondition(params, curr)
    /\ result' = [kind |-> "trajectory", ref |-> solution, name |-> "", line |-> 0]
    /\ heap' = [o \in ObjIds |-> IF o = solution THEN heap[o] ELSE EmptyTrajectory]
    /\ pc' = "idle"
    /\ curr' = NoLocals
    /\ solution' = NoRef
    /\ snap' = NoSnap
    /\ used' = NoSnap
    /\ UNCHANGED <<params, initial_values, env, edited, midEdits>>

----------------------------------------------------------------------------
(* Specifications *)

\* the program as JavaScript runs it: a solve runs to completion, edits fall
\* between solves
Next == EditParams \/ EditInitialValues \/ Begin \/ Iterate \/ IterateThrows \/ Return

Spec == Init /\ [][Next]_vars

\* A host that lets the caller's edits in between the loop iterations.  The
\* solver starts on a parameter set that makes a run of three samples.
InitConc ==
    /\ Init
    /\ params.time_step = 1
    /\ params.end = 2
    /\ initial_values.time = 0

NextConc == EditParamsDuringSolve \/ Begin \/ Iterate \/ IterateThrows \/ Return

SpecConc == InitConc /\ [][NextConc]_vars

----------------------------------------------------------------------------
(* What a solve returned *)

\* a solve has finished and nothing was edited since: params and
\* initial_values are the values it ran on
Finished == result.kind # "none"

Returned == result.kind = "trajectory"

\* the Trajectory the caller holds
Held == heap[result.ref]

\* the initial sample
FirstSampleIsInitial(t) ==
    /\ t.robustness[1] = initial_values.robustness
    /\ t.adaptivity[1] = initial_values.adaptivity
    /\ t.time[1] = initial_values.time

\* what the caller got: the Trajectory's contents, or the error
Outcome ==
    IF Returned THEN [kind |-> "trajectory", value |-> Held, name |-> ""]
    ELSE [kind |-> result.kind, value |-> EmptyTrajectory, name |-> result.name]

\* The getter on a newly constructed Solver(p, iv) in host e, as one
\* computation: lines 29 to 49 run from nothing but p, iv and e.
RECURSIVE EulerLoop(_, _, _, _)
EulerLoop(p, e, c, sol) ==
    IF ~LoopCondition(p, c)
    THEN [kind |-> "trajectory", value |-> sol, name |-> ""]
    ELSE IF ~EnvComplete(e)
    THEN [kind |-> "error", value |-> EmptyTrajectory, name |-> ThrownError(e).name]
    ELSE IF Len(sol.time) >= MaxSamples \/ ~InRange(c)
    THEN [kind |-> "running", value |-> EmptyTrajectory, name |-> ""]
    ELSE EulerLoop(p, e, NextValues(p, e, c), AppendSample(sol, c))

FreshSolution(p, iv, e) ==
    EulerLoop(p, e,
              [robustness |-> iv.robustness, adaptivity |-> iv.adaptivity,
               time |-> iv.time, live |-> TRUE],
              EmptyTrajectory)

----------------------------------------------------------------------------
(* Claims *)

\* C1: with time_step <= 0 a solve fails with InvalidParameter before the
\* loop is entered: the loop is never reached, no sample is appended, and
\* the solve ends with that error and no Trajectory.
C1_InvalidTimeStepRejected ==
    /\ (pc = "loop" /\ snap.time_step <= 0) => FALSE
    /\ (Finished /\ params.time_step <= 0) =>
           (result.kind = "error" /\ result.name = "InvalidParameter")

\* C2: every solve that was started finishes.  The loop's only way out is
\* the running time passing end, and the step added to it does not change
\* during a solve, so the solve finishes exactly if every iteration brings
\* the running time nearer to end; and with time_step > 0 and
\* initial time <= end the loop has run at most
\* (end - initial time) / time_step + 1 iterations.
C2_IterationBound ==
    (pc = "loop" /\ params.time_step > 0 /\ initial_values.time <= params.end) =>
        Len(heap[solution].time) <= ((params.end - initial_values.time) \div params.time_step) + 1

C2_SolveFinishes ==
    /\ [][(pc = "loop" /\ pc' = "loop") =>
             (params.end - curr'.time < params.end - curr.time)]_vars
    /\ []C2_IterationBound

\* C3: in a Trajectory returned with time_step > 0 and initial time <= end,
\* time starts at the initial time, goes up by time_step from sample to
\* sample, never passes end, and the last time is the last one not past end.
C3_TimeGrid ==
    (Returned /\ params.time_step > 0 /\ initial_values.time <= params.end) =>
        LET T == Held.time
            n == Len(T)
        IN  /\ n >= 1
            /\ T[1] = initial_values.time
            /\ \A i \in 1..(n - 1) : T[i + 1] = T[i] + params.time_step
            /\ \A i \in 1..n : T[i] <= params.end
            /\ T[n] <= params.end
            /\ params.end < T[n] + params.time_step

C3_Witness ==
    /\ Returned
    /\ params.time_step > 0
    /\ initial_values.time <= params.end
    /\ Len(Held.time) >= 2
    /\ edited

\* C4: in a returned Trajectory every sample follows from the one before by
\* one Euler step of the stored time_step, both derivatives taken at the
\* sample before.
C4_EulerStep ==
    Returned =>
        LET R == Held.robustness
            A == Held.adaptivity
            dRdt(rob, ada) == params.alpha_r * (1 - params.q) + params.gamma_r0 * rob
                              - params.gamma_r2 * rob * rob * rob - params.beta_a * ada
            dAdt(rob, ada) == params.alpha_a * params.q - params.gamma_a * ada
                              + params.beta_r * rob
        IN  \A i \in 1..(Len(R) - 1) :
               /\ R[i + 1] = R[i] + dRdt(R[i], A[i]) * params.time_step
               /\ A[i + 1] = A[i] + dAdt(R[i], A[i]) * params.time_step

\* C5: a returned Trajectory has three sequences of one length, and with
\* time_step > 0 and initial time <= end the solve returns a Trajectory that
\* is not empty and starts with the initial state.
C5_NonEmptyAligned ==
    /\ Returned =>
           /\ Len(Held.robustness) = Len(Held.time)
           /\ Len(Held.adaptivity) = Len(Held.time)
    /\ (Finished /\ params.time_step > 0 /\ initial_values.time <= params.end) =>
           /\ Returned
           /\ Len(Held.time) >= 1
           /\ FirstSampleIsInitial(Held)

\* C6: with time_step > 0, end = initial time gives exactly the initial
\* sample, and end < initial time gives no error and at most the initial
\* sample.
C6_Boundary ==
    (Finished /\ params.time_step > 0) =>
        /\ (params.end = initial_values.time) =>
               /\ Returned
               /\ Len(Held.time) = 1
               /\ FirstSampleIsInitial(Held)
        /\ (params.end < initial_values.time) =>
               /\ Returned
               /\ Len(Held.time) <= 1
               /\ (Len(Held.time) = 1 => FirstSampleIsInitial(Held))

\* C7: the parameter values a running solve has read are the ones stored
\* when it started, also when the caller edits params between iterations.
C7_ReadsSnapshot == (pc = "loop") => (used = snap)

\* C8: what a solve gives the caller is what the getter of a newly
\* constructed Solver holding the current values gives, whatever solves and
\* edits came before.
C8_FreshEachSolve ==
    Finished => Outcome = FreshSolution(params, initial_values, env)

C8_Witness ==
    /\ Returned
    /\ edited
    /\ result.ref = 2
    /\ Len(Held.time) >= 2

C10_FixedPoint ==
    LET rob0 == initial_values.robustness
        ada0 == initial_values.adaptivity
        dRdt0 == params.alpha_r * (1 - params.q) + params.gamma_r0 * rob0
                 - params.gamma_r2 * rob0 * rob0 * rob0 - params.beta_a * ada0
        dAdt0 == params.alpha_a * params.q - params.gamma_a * ada0 + params.beta_r * rob0
    IN  (Returned /\ params.time_step > 0 /\ dRdt0 = 0 /\ dAdt0 = 0) =>
            \A i \in 1..Len(Held.time) :
                /\ Held.robustness[i] = rob0
                /\ Held.adaptivity[i] = ada0

C10_Witness ==
    /\ Returned
    /\ params.time_step > 0
    /\ Len(Held.time) >= 2
    /\ computeDrDt(params, initial_values.robustness, initial_values.adaptivity) = 0
    /\ computeDaDt(params, initial_values.robustness, initial_values.adaptivity) = 0
    /\ params.beta_a = 1
    /\ params.beta_r = 1
    /\ Held.robustness[Len(Held.time)] = initial_values.robustness

====
